---- MODULE Spec2Model ----
(***************************************************************************)
(* tuigreet: the frame driver ui::draw (src/src/ui/mod.rs) and the Command *)
(* panel renderer ui::command::draw (src/src/ui/command.rs).               *)
(*                                                                         *)
(* One redraw is a sequence of steps of the task running ui::draw; the     *)
(* application state (Greeter) sits behind a tokio RwLock that the event   *)
(* loop's other tasks also take.  All geometry is u16 arithmetic: an       *)
(* overflowing operation panics in a build with overflow checks and wraps  *)
(* modulo 2^16 in a build without them, so the build is part of the state. *)
(* Strings are sequences of characters, each character given by the number *)
(* of bytes of its UTF-8 encoding, so that str::len() (bytes) and          *)
(* chars().count() (characters) are different operators.                   *)
(***************************************************************************)
EXTENDS Integers, Sequences, FiniteSets, TLC

VARIABLES
    build,              \* "debug" (overflow checks) or "release" (wrapping)
    cfg,                \* Greeter's configuration: paddings, width, height, time, locale
    size,               \* the terminal's size, f.size()
    greeter,            \* the mutable application state behind the RwLock
    lock,               \* the RwLock: "free", "draw" (ui::draw's write guard), "other"
    pc,                 \* position of the task running ui::draw
    snap,               \* ghost: the Greeter as it was when the write guard was taken
    hide_cursor,        \* draw's local hide_cursor
    chunks,             \* draw's local chunks: the five outer rows
    status_block_size,  \* draw's local status_block_size (-1: not computed)
    status_chunks,      \* draw's local status_chunks
    rendered,           \* the widgets rendered into the frame in this redraw
    routedMode,         \* the Mode the match of line 115 dispatched on
    panel,              \* what the panel renderer did: its Result and its Rects
    cursor,             \* draw's local cursor: the Option the router produced
    set_cursor,         \* the frame's cursor_position: what f.set_cursor was given
    term,               \* the terminal: its cursor and whether output was flushed
    result              \* what ui::draw returned

vars == <<build, cfg, size, greeter, lock, pc, snap, hide_cursor, chunks,
          status_block_size, status_chunks, rendered, routedMode, panel, cursor,
          set_cursor, term, result>>

----------------------------------------------------------------------------
(* Bounds of the model *)

\* longest pending command text (characters) another task types
MaxInputLen == 2
\* largest 1-indexed coordinate a panel renderer other than Command returns
MaxPanelCoord == 2

----------------------------------------------------------------------------
(* u16 arithmetic *)

W16 == 2^16

\* the value of an expression whose evaluation panicked
PANIC == -1

Wrap(n) == ((n % W16) + W16) % W16

\* `as u16` of a usize: truncation, never a panic
AsU16(n) == Wrap(n)

Checked(n) ==
    IF n >= 0 /\ n < W16 THEN n
    ELSE IF build = "debug" THEN PANIC ELSE Wrap(n)

Add16(a, b) == IF a = PANIC \/ b = PANIC THEN PANIC ELSE Checked(a + b)
Sub16(a, b) == IF a = PANIC \/ b = PANIC THEN PANIC ELSE Checked(a - b)
Mul16(a, b) == IF a = PANIC \/ b = PANIC THEN PANIC ELSE Checked(a * b)
Div16(a, b) == IF a = PANIC \/ b = PANIC THEN PANIC ELSE a \div b

Min2(a, b) == IF a <= b THEN a ELSE b
Max2(a, b) == IF a >= b THEN a ELSE b

----------------------------------------------------------------------------
(* Strings: a sequence of characters, each its UTF-8 byte length *)

RECURSIVE SumSeq(_)
SumSeq(s) == IF s = <<>> THEN 0 ELSE Head(s) + SumSeq(Tail(s))

\* str::len(): the length in bytes
len(s) == SumSeq(s)

\* str::chars().count(): the length in characters
chars_count(s) == Len(s)

\* fl!("new_command"): the localized label of the command field.  "en" is
\* "New command: " (13 ASCII characters); the other locale's label also has
\* 13 characters, five of them encoded on two bytes.
fl_new_command(locale) ==
    IF locale = "en" THEN [i \in 1..13 |-> 1]
    ELSE [i \in 1..13 |-> IF i <= 5 THEN 2 ELSE 1]

----------------------------------------------------------------------------
(* Geometry: ratatui's Rect and Layout::split *)

\* Rect::new, for the Rects of at most 2^16 - 1 cells that it leaves as given
Rect_new(x, y, width, height) == [x |-> x, y |-> y, width |-> width, height |-> height]

NoRect == Rect_new(0, 0, 0, 0)

Length(n) == [kind |-> "Length", n |-> n]
Min(n) == [kind |-> "Min", n |-> n]

\* The extent each constraint asks for: a Length its length, a Min what the
\* Lengths leave of the extent and at least its minimum.
Wanted(cons, extent) ==
    LET fixed == SumSeq([i \in 1..Len(cons) |->
                           IF cons[i].kind = "Length" THEN cons[i].n ELSE 0])
    IN [i \in 1..Len(cons) |->
          IF cons[i].kind = "Length" THEN cons[i].n
          ELSE Max2(cons[i].n, extent - fixed)]

\* Layout::split: as many Rects as constraints, laid one after the other
\* along the axis and clipped to the area, so that they never overlap and
\* never leave it; what does not fit is an empty Rect at the area's end.
split(area, direction, cons) ==
    LET extent == IF direction = "Vertical" THEN area.height ELSE area.width
        want == Wanted(cons, extent)
        start(i) == Min2(extent, SumSeq(SubSeq(want, 1, i - 1)))
        span(i) == Min2(want[i], extent - start(i))
    IN [i \in 1..Len(cons) |->
          IF direction = "Vertical"
          THEN Rect_new(area.x, area.y + start(i), area.width, span(i))
          ELSE Rect_new(area.x + start(i), area.y, span(i), area.height)]

\* Two Rects share a cell
Overlap(a, b) ==
    /\ a.width > 0 /\ a.height > 0 /\ b.width > 0 /\ b.height > 0
    /\ a.x < b.x + b.width /\ b.x < a.x + a.width
    /\ a.y < b.y + b.height /\ b.y < a.y + a.height

\* Rect a lies within Rect b
Within(a, b) ==
    /\ b.x <= a.x /\ a.x + a.width <= b.x + b.width
    /\ b.y <= a.y /\ a.y + a.height <= b.y + b.height

\* Rect a is centered in Rect b: the margins on either side differ by at most one
Centered(a, b) ==
    LET left == a.x - b.x
        right == (b.x + b.width) - (a.x + a.width)
        top == a.y - b.y
        bottom == (b.y + b.height) - (a.y + a.height)
    IN /\ right - left \in {0, 1}
       /\ bottom - top \in {0, 1}

\* the indices of mod.rs, 0-based in the source and 1-based in a TLA+ sequence
TITLEBAR_INDEX == 1
STATUSBAR_INDEX == 3
STATUSBAR_LEFT_INDEX == 1
STATUSBAR_RIGHT_INDEX == 2
At(seq, index) == seq[index + 1]

----------------------------------------------------------------------------
(* The application state and the inputs of the model *)

Modes == {"Command", "Sessions", "Power", "Users", "Processing", "Prompt"}

Builds == {"debug", "release"}

\* window padding: none (the default), one wider than half a 10-column
\* terminal, and one whose double does not fit 16 bits
WindowPaddings == {0, 8, 32769}

\* the configured container: narrower than both terminals' widths would need,
\* and exactly as large as the larger terminal
Containers == {[width |-> 40, height |-> 7], [width |-> 80, height |-> 24]}

ContainerPaddings == {1, 2}

Locales == {"en", "xx"}

Sizes == {[width |-> 80, height |-> 24], [width |-> 10, height |-> 5]}

Configs ==
    [window_padding : WindowPaddings, container : Containers,
     container_padding : ContainerPaddings, locale : Locales, time : BOOLEAN]

\* the characters another task can type: one ASCII, one encoded on three bytes
InputChars == {1, 3}

\* Greeter accessors (defined with Greeter, outside ui/)
window_padding == cfg.window_padding
container_padding == cfg.container_padding
width == cfg.container.width

\* ui::util::get_height: the configured container height
get_height(g) == cfg.container.height

\* ui::util::should_hide_cursor: the state holder's flags say the active field
\* exposes no caret
should_hide_cursor(g) == g.working

\* ui::util::get_cursor_offset: the caret sits at the end of the input
get_cursor_offset(g, length) == length

None == [some |-> FALSE, col |-> 0, row |-> 0]
Some(c, r) == [some |-> TRUE, col |-> c, row |-> r]

NoPanel ==
    [res |-> "None", col |-> 0, row |-> 0, drew |-> FALSE, container |-> NoRect,
     frame |-> NoRect, field |-> NoRect, value |-> NoRect, text |-> <<>>, offset |-> 0]

\* no write guard is held: no snapshot
NoSnap == [mode |-> "None", new_command |-> <<>>, working |-> FALSE]

NoTerm == [hide_cursor |-> FALSE, cursor |-> "untouched", x |-> 0, y |-> 0, flushed |-> FALSE]

Init ==
    /\ build \in Builds
    /\ cfg \in Configs
    /\ size \in Sizes
    /\ greeter = [mode |-> "Prompt", new_command |-> <<>>, working |-> FALSE]
    /\ lock = "free"
    /\ pc = "idle"
    /\ snap = NoSnap
    /\ hide_cursor = FALSE
    /\ chunks = <<>>
    /\ status_block_size = PANIC
    /\ status_chunks = <<>>
    /\ rendered = {}
    /\ routedMode = "None"
    /\ panel = NoPanel
    /\ cursor = None
    /\ set_cursor = None
    /\ term = NoTerm
    /\ result = "None"

locals == <<hide_cursor, chunks, status_block_size, status_chunks, rendered,
            routedMode, panel, cursor, set_cursor, term, result>>
env == <<build, cfg, size>>

----------------------------------------------------------------------------
(* ui::draw, step by step *)

\* what dropping the RwLockWriteGuard leaves of the lock: every way out of
\* draw (return, `?`, unwinding) drops the guard
DropGuard == "free"

\* the same step taking no exclusive guard
Acquire_shared ==
    /\ pc = "idle"
    /\ lock = "free"
    /\ lock' = lock
    /\ snap' = greeter
    /\ pc' = "hide"
    /\ UNCHANGED <<env, greeter, locals>>

\* line 45: greeter.write().await
Acquire ==
    /\ pc = "idle"
    /\ lock = "free"
    /\ lock' = "draw"
    /\ snap' = greeter
    /\ pc' = "hide"
    /\ UNCHANGED <<env, greeter, locals>>

\* a HideCursor whose `?` leaves without dropping the guard
HideCursor_leak ==
    /\ pc = "hide"
    /\ IF should_hide_cursor(greeter)
       THEN \E io_ok \in BOOLEAN :
              IF io_ok
              THEN /\ term' = [term EXCEPT !.hide_cursor = TRUE]
                   /\ hide_cursor' = TRUE
                   /\ pc' = "status"
                   /\ UNCHANGED <<lock, result>>
              ELSE /\ result' = "Err_hide_cursor"
                   /\ pc' = "done"
                   /\ UNCHANGED <<lock, term, hide_cursor>>
       ELSE /\ hide_cursor' = FALSE
            /\ pc' = "status"
            /\ UNCHANGED <<lock, term, result>>
    /\ UNCHANGED <<env, greeter, snap, chunks, status_block_size, status_chunks,
                   rendered, routedMode, panel, cursor, set_cursor>>

\* lines 47-52: the cursor-visibility decision; terminal.hide_cursor()? fails
\* with an I/O error or succeeds
HideCursor ==
    /\ pc = "hide"
    /\ IF should_hide_cursor(greeter)
       THEN \E io_ok \in BOOLEAN :
              IF io_ok
              THEN /\ term' = [term EXCEPT !.hide_cursor = TRUE]
                   /\ hide_cursor' = TRUE
                   /\ pc' = "status"
                   /\ UNCHANGED <<lock, result>>
              ELSE /\ result' = "Err_hide_cursor"
                   /\ pc' = "done"
                   /\ lock' = DropGuard
                   /\ UNCHANGED <<term, hide_cursor>>
       ELSE /\ hide_cursor' = FALSE
            /\ pc' = "status"
            /\ UNCHANGED <<lock, term, result>>
    /\ UNCHANGED <<env, greeter, snap, chunks, status_block_size, status_chunks,
                   rendered, routedMode, panel, cursor, set_cursor>>

\* lines 56-67: the five-row outer layout of the whole frame
outer_chunks ==
    split(Rect_new(0, 0, size.width, size.height), "Vertical",
          <<Length(window_padding), Length(1), Min(1), Length(1), Length(window_padding)>>)

\* line 76
status_block_size_of(size_width, pad) == Div16(Sub16(size_width, Mul16(2, pad)), 2)

\* lines 55-113: outer layout, time line, status line
DrawStatus ==
    /\ pc = "status"
    /\ chunks' = outer_chunks
    /\ LET time == IF cfg.time THEN {"time"} ELSE {}
           sbs == status_block_size_of(size.width, window_padding)
       IN IF sbs = PANIC
          THEN /\ rendered' = time
               /\ pc' = "panicked"
               /\ result' = "Panic"
               /\ lock' = DropGuard
               /\ UNCHANGED <<status_block_size, status_chunks>>
          ELSE \E capslock_status \in BOOLEAN :
                 /\ status_block_size' = sbs
                 /\ status_chunks' =
                      split(At(outer_chunks, STATUSBAR_INDEX), "Horizontal",
                            <<Length(window_padding), Length(sbs), Length(sbs),
                              Length(window_padding)>>)
                 /\ rendered' = time \cup {"status_left"}
                                  \cup (IF capslock_status THEN {"status_right"} ELSE {})
                 /\ pc' = "route"
                 /\ UNCHANGED <<lock, result>>
    /\ UNCHANGED <<env, greeter, snap, hide_cursor, routedMode, panel, cursor,
                   set_cursor, term>>

\* line 115: match greeter.mode
Route ==
    /\ pc = "route"
    /\ routedMode' = greeter.mode
    /\ pc' = "panel"
    /\ UNCHANGED <<env, greeter, lock, snap, hide_cursor, chunks, status_block_size,
                   status_chunks, rendered, panel, cursor, set_cursor, term, result>>

----------------------------------------------------------------------------
(* ui::command::draw *)

\* the container's origin without the halving: flush with the far edge
command_origin_flush(extent, length) == Sub16(extent, length)

\* lines 21-22: (size.width - width) / 2 and (size.height - height) / 2
command_origin(extent, length) == Div16(Sub16(extent, length), 2)

\* line 46: the x of the Rect the input value is rendered into
value_x(field_x, label) == Add16(Add16(1, field_x), AsU16(len(label)))

\* the cursor column counting the label in characters
cursor_col_chars(field_x, label, offset) ==
    Add16(Add16(Add16(2, field_x), AsU16(chars_count(label))), AsU16(offset))

\* line 52: the cursor column
cursor_col(field_x, label, offset) ==
    Add16(Add16(Add16(2, field_x), AsU16(len(label))), AsU16(offset))

\* line 52: the cursor row
cursor_row(field_y) == Add16(field_y, 1)

\* lines 15-53.  The function has no failing path: it returns Ok, or an
\* overflowing subtraction or addition panics.  The value Rect's width and the
\* widgets' contents are left out; the Rects' origins are what the cursor is
\* computed from.
command_draw(g) ==
    LET height == get_height(g)
        x == command_origin(size.width, width)
        y == command_origin(size.height, height)
        fx == Add16(x, container_padding)
        fy == Add16(y, container_padding)
        fw == Sub16(width, container_padding)
        fh == Sub16(height, container_padding)
    IN IF PANIC \in {x, y, fx, fy, fw, fh}
       THEN [NoPanel EXCEPT !.res = "Panic"]
       ELSE LET container == Rect_new(x, y, width, height)
                frame == Rect_new(fx, fy, fw, fh)
                field == split(frame, "Vertical", <<Length(1)>>)[1]
                label == fl_new_command(cfg.locale)
                vx == value_x(field.x, label)
                offset == get_cursor_offset(g, chars_count(g.new_command))
                col == cursor_col(field.x, label, offset)
                row == cursor_row(field.y)
                drawn == [NoPanel EXCEPT !.drew = TRUE, !.container = container,
                                         !.frame = frame, !.field = field]
            IN IF vx = PANIC
               THEN [drawn EXCEPT !.res = "Panic"]
               ELSE IF PANIC \in {col, row}
               THEN [drawn EXCEPT !.res = "Panic", !.text = g.new_command,
                                  !.value = Rect_new(vx, field.y, 0, 1)]
               ELSE [drawn EXCEPT !.res = "Ok", !.col = col, !.row = row,
                                  !.text = g.new_command, !.offset = offset,
                                  !.value = Rect_new(vx, field.y, 0, 1)]

\* what the renderers of the other modes return: a failure, or a 1-indexed
\* coordinate of the drawing surface
other_panel_results ==
    {[NoPanel EXCEPT !.res = "Err"]}
      \cup {[NoPanel EXCEPT !.res = "Ok", !.col = c, !.row = r] :
              c \in 1..MaxPanelCoord, r \in 1..MaxPanelCoord}

\* Result::ok(): Ok(v) is Some(v), Err(_) is None
ok(p) == IF p.res = "Ok" THEN Some(p.col, p.row) ELSE None

\* line 116: Mode::Command => self::command::draw(&mut greeter, f).ok()
CommandPanel ==
    /\ pc = "panel"
    /\ routedMode = "Command"
    /\ LET p == command_draw(greeter)
       IN /\ panel' = p
          /\ IF p.res = "Panic"
             THEN /\ pc' = "panicked"
                  /\ result' = "Panic"
                  /\ lock' = DropGuard
                  /\ UNCHANGED cursor
             ELSE /\ cursor' = ok(p)
                  /\ pc' = "cursor"
                  /\ UNCHANGED <<lock, result>>
    /\ UNCHANGED <<env, greeter, snap, hide_cursor, chunks, status_block_size,
                   status_chunks, rendered, routedMode, set_cursor, term>>

\* the other arms with `?` in the place of .ok(): the failure leaves draw
OtherPanel_propagate ==
    /\ pc = "panel"
    /\ routedMode \in Modes \ {"Command"}
    /\ \E p \in other_panel_results :
         /\ panel' = p
         /\ IF p.res = "Err"
            THEN /\ pc' = "done"
                 /\ result' = "Err_panel"
                 /\ lock' = DropGuard
                 /\ UNCHANGED cursor
            ELSE /\ cursor' = ok(p)
                 /\ pc' = "cursor"
                 /\ UNCHANGED <<lock, result>>
    /\ UNCHANGED <<env, greeter, snap, hide_cursor, chunks, status_block_size,
                   status_chunks, rendered, routedMode, set_cursor, term>>

\* lines 117-121: the other arms, each <renderer>(&mut greeter, f).ok()
OtherPanel ==
    /\ pc = "panel"
    /\ routedMode \in Modes \ {"Command"}
    /\ \E p \in other_panel_results :
         /\ panel' = p
         /\ cursor' = ok(p)
         /\ pc' = "cursor"
    /\ UNCHANGED <<env, greeter, lock, snap, hide_cursor, chunks, status_block_size,
                   status_chunks, rendered, routedMode, set_cursor, term, result>>

\* the coordinate handed on as it is
to_terminal_same(v) == v

\* line 126: the 1-indexed coordinate as the terminal's 0-indexed one
to_terminal(v) == Sub16(v, 1)

\* lines 124-128 without the test of hide_cursor
SetCursor_always ==
    /\ pc = "cursor"
    /\ IF cursor.some
       THEN LET x == to_terminal(cursor.col)
                y == to_terminal(cursor.row)
            IN IF PANIC \in {x, y}
               THEN /\ pc' = "panicked"
                    /\ result' = "Panic"
                    /\ lock' = DropGuard
                    /\ UNCHANGED set_cursor
               ELSE /\ set_cursor' = Some(x, y)
                    /\ pc' = "finish"
                    /\ UNCHANGED <<lock, result>>
       ELSE /\ pc' = "finish"
            /\ UNCHANGED <<set_cursor, lock, result>>
    /\ UNCHANGED <<env, greeter, snap, hide_cursor, chunks, status_block_size,
                   status_chunks, rendered, routedMode, panel, cursor, term>>

\* lines 124-128: f.set_cursor(cursor.0 - 1, cursor.1 - 1), unless hidden
SetCursor ==
    /\ pc = "cursor"
    /\ IF ~hide_cursor /\ cursor.some
       THEN LET x == to_terminal(cursor.col)
                y == to_terminal(cursor.row)
            IN IF PANIC \in {x, y}
               THEN /\ pc' = "panicked"
                    /\ result' = "Panic"
                    /\ lock' = DropGuard
                    /\ UNCHANGED set_cursor
               ELSE /\ set_cursor' = Some(x, y)
                    /\ pc' = "finish"
                    /\ UNCHANGED <<lock, result>>
       ELSE /\ pc' = "finish"
            /\ UNCHANGED <<set_cursor, lock, result>>
    /\ UNCHANGED <<env, greeter, snap, hide_cursor, chunks, status_block_size,
                   status_chunks, rendered, routedMode, panel, cursor, term>>

\* lines 54 and 129: terminal.draw(..)? after the closure: the frame is written
\* out and the terminal's cursor is shown at the frame's cursor position, or
\* hidden when the frame has none; an I/O error leaves draw
Finish ==
    /\ pc = "finish"
    /\ \E io_ok \in BOOLEAN :
         IF io_ok
         THEN /\ term' = IF set_cursor.some
                         THEN [term EXCEPT !.cursor = "shown", !.x = set_cursor.col,
                                           !.y = set_cursor.row]
                         ELSE [term EXCEPT !.cursor = "hidden"]
              /\ pc' = "flush"
              /\ UNCHANGED <<lock, result>>
         ELSE /\ result' = "Err_draw"
              /\ pc' = "done"
              /\ lock' = DropGuard
              /\ UNCHANGED term
    /\ UNCHANGED <<env, greeter, snap, hide_cursor, chunks, status_block_size,
                   status_chunks, rendered, routedMode, panel, cursor, set_cursor>>

\* lines 131-133: io::stdout().flush()?; Ok(())
Flush ==
    /\ pc = "flush"
    /\ \E io_ok \in BOOLEAN :
         IF io_ok
         THEN /\ term' = [term EXCEPT !.flushed = TRUE]
              /\ result' = "Ok"
         ELSE /\ result' = "Err_flush"
              /\ UNCHANGED term
    /\ pc' = "done"
    /\ lock' = DropGuard
    /\ UNCHANGED <<env, greeter, snap, hide_cursor, chunks, status_block_size,
                   status_chunks, rendered, routedMode, panel, cursor, set_cursor>>

\* draw has returned; its locals are gone and the event loop calls it again
Return ==
    /\ pc = "done"
    /\ pc' = "idle"
    /\ hide_cursor' = FALSE
    /\ chunks' = <<>>
    /\ status_block_size' = PANIC
    /\ status_chunks' = <<>>
    /\ rendered' = {}
    /\ routedMode' = "None"
    /\ panel' = NoPanel
    /\ cursor' = None
    /\ set_cursor' = None
    /\ term' = NoTerm
    /\ result' = "None"
    /\ snap' = NoSnap
    /\ UNCHANGED <<env, greeter, lock>>

----------------------------------------------------------------------------
(* The rest of the program: the terminal and the tasks that own the state *)

\* the terminal is resized between two redraws
Resize ==
    /\ pc = "idle"
    /\ size' \in Sizes \ {size}
    /\ UNCHANGED <<build, cfg, greeter, lock, pc, snap, locals>>

\* what one event does to the state: a mode switch, a typed or erased
\* character of the pending command, the working flag
Mutations(g) ==
    {[g EXCEPT !.mode = m] : m \in Modes \ {g.mode}}
      \cup {[g EXCEPT !.new_command = Append(@, c)] :
              c \in IF Len(g.new_command) < MaxInputLen THEN InputChars ELSE {}}
      \cup {[g EXCEPT !.new_command = SubSeq(@, 1, Len(@) - 1)] :
              c \in IF Len(g.new_command) > 0 THEN {0} ELSE {}}
      \cup {[g EXCEPT !.working = ~@]}

\* a task of the event loop is running while draw is (a panic ends the
\* process, and a returned draw is called again first)
Running == pc \notin {"done", "panicked"}

\* another task takes the lock
OtherAcquire ==
    /\ Running
    /\ lock = "free"
    /\ lock' = "other"
    /\ UNCHANGED <<env, greeter, pc, snap, locals>>

\* and changes the state under it
OtherMutate ==
    /\ Running
    /\ lock = "other"
    /\ greeter' \in Mutations(greeter)
    /\ UNCHANGED <<env, lock, pc, snap, locals>>

\* and releases it
OtherRelease ==
    /\ Running
    /\ lock = "other"
    /\ lock' = "free"
    /\ UNCHANGED <<env, greeter, pc, snap, locals>>

Next ==
    \/ Acquire
    \/ HideCursor
    \/ DrawStatus
    \/ Route
    \/ CommandPanel
    \/ OtherPanel
    \/ SetCursor
    \/ Finish
    \/ Flush
    \/ Return
    \/ Resize
    \/ OtherAcquire
    \/ OtherMutate
    \/ OtherRelease

Spec == Init /\ [][Next]_vars

\* One configuration, for the behaviours of the lock over time.
InitOneConfig ==
    /\ Init
    /\ cfg = [window_padding |-> 0, container |-> [width |-> 40, height |-> 7],
              container_padding |-> 2, locale |-> "en", time |-> TRUE]

\* Scheduling: the event loop calls draw again once it has returned; tokio's
\* RwLock queues its waiters in order, so a writer that waits while the lock
\* is released again and again does get it; a task that holds the guard
\* drops it.
Fairness ==
    /\ SF_vars(Acquire)
    /\ WF_vars(Return)
    /\ WF_vars(OtherRelease)

FairSpec == InitOneConfig /\ [][Next]_vars /\ Fairness

----------------------------------------------------------------------------
(* Properties *)

\* the redraw is between taking the guard and returning
Held == pc \in {"hide", "status", "route", "panel", "cursor", "finish", "flush"}

\* the panel renderer has been called in this redraw
PanelRan == panel.res # "None"

\* the container fits the frame, and a Rect holds its area (Rect::new shrinks
\* a Rect of more than 2^16 - 1 cells)
Fits ==
    /\ width <= size.width
    /\ get_height(greeter) <= size.height
    /\ width * get_height(greeter) <= W16 - 1

whole_frame == Rect_new(0, 0, size.width, size.height)

\* C1: when should_hide_cursor held of the state the redraw started from, no
\* cursor position is given to the frame and the terminal's cursor is not
\* shown, whatever the mode and whatever the panel renderer returned.
C1_NoCursorWhenSuppressed ==
    (pc # "idle" /\ should_hide_cursor(snap)) =>
        /\ ~set_cursor.some
        /\ term.cursor # "shown"

\* C1's case: a suppressed redraw whose renderer returned a coordinate ran to its end
C1_Witness ==
    /\ pc = "done" /\ result = "Ok"
    /\ should_hide_cursor(snap)
    /\ cursor.some
    /\ term.cursor = "hidden"

\* C2: a failed panel renderer gives no cursor, its error is not what draw
\* returns, the time and status widgets of the redraw are rendered, and
\* unless the terminal itself fails the output is flushed.
C2_PanelFailureSwallowed ==
    panel.res = "Err" =>
        /\ ~cursor.some
        /\ ~set_cursor.some
        /\ "status_left" \in rendered
        /\ (cfg.time => "time" \in rendered)
        /\ pc \in {"cursor", "finish", "flush", "done"}
        /\ (pc = "done" => /\ result \in {"Ok", "Err_draw", "Err_flush"}
                           /\ (result = "Ok" => term.flushed /\ term.cursor = "hidden"))

\* C2's case: the renderer failed and the redraw completed
C2_Witness ==
    /\ panel.res = "Err"
    /\ pc = "done" /\ result = "Ok"
    /\ term.flushed
    /\ {"time", "status_left"} \subseteq rendered

\* C3: on a surface smaller than the configured container the Command panel
\* returns an error and produces no container Rect, nothing crashes, and the
\* status row is laid out and rendered.
C3_SmallSurfaceIsGeometryError ==
    (routedMode = "Command" /\ PanelRan /\ ~Fits) =>
        /\ panel.res = "Err"
        /\ ~panel.drew
        /\ pc # "panicked"
        /\ "status_left" \in rendered

\* C4: the status_block_size draw computes satisfies
\* 2*pad + 2*status_block_size <= surface.width, for every width and padding.
C4_StatusBlockFits ==
    status_block_size # PANIC =>
        2 * window_padding + 2 * status_block_size <= size.width

\* C5: the cursor command::draw returns is
\* (2 + row.x + label_length + char_offset, row.y + 1), the label and the
\* input both counted in displayed characters.
C5_CursorCountsCharacters ==
    (routedMode = "Command" /\ panel.res = "Ok") =>
        /\ panel.col = 2 + panel.field.x + chars_count(fl_new_command(cfg.locale))
                         + chars_count(panel.text)
        /\ panel.row = panel.field.y + 1

\* C6: whenever draw is not running, whichever way it left, it does not hold
\* the lock, and after every return of draw, and whenever a call of draw
\* waits for the lock, draw eventually has the lock again.
C6_LockReleasedOnEveryExit ==
    /\ [](pc \in {"idle", "done", "panicked"} => lock # "draw")
    /\ ((pc \in {"idle", "done"}) ~> (lock = "draw"))

\* C6's case: draw left through an error after a failed panel renderer
C6_Witness ==
    /\ pc = "done"
    /\ result = "Err_flush"
    /\ panel.res = "Err"
    /\ lock = "free"

\* C7: from the cursor-visibility decision to the end of the redraw draw holds
\* the write lock and the state is the one the redraw started from: the
\* decision, the mode routed on and the text rendered are of one version.
C7_OneSnapshot ==
    /\ Held => (lock = "draw" /\ greeter = snap)
    /\ pc # "idle" =>
         /\ routedMode # "None" => routedMode = snap.mode
         /\ (routedMode = "Command" /\ panel.res = "Ok") => panel.text = snap.new_command
         /\ (pc # "hide" /\ result # "Err_hide_cursor")
              => hide_cursor = should_hide_cursor(snap)

\* C7's case: a Command redraw of a typed text is at its end, with the lock held
C7_Witness ==
    /\ pc = "flush"
    /\ routedMode = "Command"
    /\ panel.text # <<>>
    /\ lock = "draw"

C9_ContainerInMainArea ==
    (routedMode = "Command" /\ panel.drew) =>
        /\ Within(panel.container, At(chunks, 2))
        /\ Centered(panel.container, At(chunks, 2))
        /\ \A i \in {0, TITLEBAR_INDEX, STATUSBAR_INDEX, 4} :
             ~Overlap(panel.container, At(chunks, i))

\* C9 amended: the surface is the whole frame; a container that fits it is
\* centered in it and contained in it.
C9_ContainerInWholeFrame ==
    (routedMode = "Command" /\ panel.drew /\ Fits) =>
        /\ Within(panel.container, whole_frame)
        /\ Centered(panel.container, whole_frame)

\* C9's case: a fitting container, strictly inside the frame, that covers the
\* time row or the status row
C9_Witness ==
    /\ routedMode = "Command" /\ panel.drew /\ Fits
    /\ panel.container.x > 0
    /\ \/ Overlap(panel.container, At(chunks, TITLEBAR_INDEX))
       \/ Overlap(panel.container, At(chunks, STATUSBAR_INDEX))

\* C10: in Command mode, absent 16-bit overflow, the cell the frame's cursor is
\* set to is in the row of the rendered value, at the value's x plus the
\* cursor offset.
C10_CursorFollowsValue ==
    (/\ routedMode = "Command" /\ panel.res = "Ok" /\ set_cursor.some
     /\ 2 + panel.field.x + len(fl_new_command(cfg.locale)) + panel.offset < W16
     /\ panel.field.y + 1 < W16) =>
        /\ set_cursor.row = panel.value.y
        /\ set_cursor.col = panel.value.x + panel.offset

\* C10's case: a label whose byte length is not its character count, and a typed text
C10_Witness ==
    /\ routedMode = "Command" /\ set_cursor.some
    /\ len(fl_new_command(cfg.locale)) # chars_count(fl_new_command(cfg.locale))
    /\ panel.offset > 0
    /\ pc = "done"

====
